---- MODULE Spec2Model ----
(***************************************************************************)
(* State-machine model of the village simulation core in                   *)
(* src/village_game.py: Inventory, Facility, Village and the GameEngine    *)
(* operations gather_resources, build_facility, assign_worker,             *)
(* unassign_worker, run_recipe and advance_day.                            *)
(*                                                                         *)
(* Quantities are Python floats in the source.  Every quantity of the      *)
(* data set below is a multiple of 5 and every gather rate is 50 or 0, so  *)
(* each float operation of the engine is exact on these values and         *)
(* integers model them without rounding.                                   *)
(***************************************************************************)
EXTENDS Integers, Sequences, FiniteSets, TLC

VARIABLES day, population, idle_workers, inventory, facilities,
          raw_goods, produced_goods, compound_goods, recipes,
          last, pre

vars == <<day, population, idle_workers, inventory, facilities,
          raw_goods, produced_goods, compound_goods, recipes, last, pre>>

(***************************************************************************)
(* Bounds of the exploration: quantities stay within -MaxDebt..MaxQty,     *)
(* play stops when the day counter reaches MaxDay, at most MaxDrift        *)
(* workers are assigned outside 0..capacity or idle outside                *)
(* 0..population, and callers pass worker counts -1..MaxWorkersArg and run *)
(* counts -1 and 1..MaxTimes (a run count of 0 behaves as -1 does: the     *)
(* loop body never runs).                                                  *)
(***************************************************************************)
MaxQty == 10
MaxDebt == 5
MaxDay == 2
MaxWorkersArg == 2
MaxDrift == 1
MaxTimes == 2

(***************************************************************************)
(* Bounds of the gathering specification: up to MaxGatherWorkers workers   *)
(* are sent, and quantities stay within -MaxDebt..MaxYield.                *)
(***************************************************************************)
MaxGatherWorkers == 5
MaxYield == 50

(***************************************************************************)
(* Bound of the inventory specification: amounts passed to the Inventory   *)
(* methods are -1..MaxAmount; quantities stay within -MaxDebt..MaxQty.     *)
(***************************************************************************)
MaxAmount == 3

(***************************************************************************)
(* Program constants.                                                      *)
(***************************************************************************)
InitialDay == 1
InitialPopulation == 5
InitialIdleWorkers == 5
DefaultCapacity == 1
DefaultCycleTime == 60
WorkHoursPerDay == 8

(***************************************************************************)
(* Dictionary helpers: a Python dict is a function; d.get(k, default).     *)
(***************************************************************************)
EmptyDict == [k \in {} |-> 0]

DictGet(d, k, default) == IF k \in DOMAIN d THEN d[k] ELSE default

(***************************************************************************)
(* Static game data, as load_game_data leaves it in the Village.           *)
(***************************************************************************)
RawGoodsData ==
    ("logs" :> [gather_rate |-> 50])

ProducedGoodsData ==
    ("lumber"  :> [per_unit_kg |-> 1]) @@
    ("sawdust" :> [gather_rate |-> 0])

FacilitiesData ==
    ("sawmill" :> [inputs |-> ("logs" :> 10),
                   capacity |-> 4,
                   enables_recipes |-> <<"saw_lumber", "press_sawdust">>]) @@
    ("woodworker_hut" :> [inputs |-> ("lumber" :> 5) @@ ("sawdust" :> 5),
                          enables_recipes |-> <<"whittle">>])

CompoundGoodsData ==
    [facilities |-> FacilitiesData, fixtures |-> EmptyDict, equipment |-> EmptyDict]

RecipesData ==
    << [id |-> "saw_lumber", facility |-> "sawmill",
        inputs |-> ("logs" :> 5), outputs |-> ("lumber" :> 5),
        byproducts |-> ("sawdust" :> 5),
        cycle_time_minutes |-> 240, workers_required |-> 1,
        skill_used |-> "", min_skill |-> 0, waste_chance |-> 0],
       [id |-> "press_sawdust", facility |-> "sawmill",
        inputs |-> ("sawdust" :> 5), outputs |-> ("logs" :> 5),
        byproducts |-> EmptyDict,
        cycle_time_minutes |-> 500, workers_required |-> 3,
        skill_used |-> "carpentry", min_skill |-> 1, waste_chance |-> 0],
       [id |-> "whittle", facility |-> "woodworker_hut",
        inputs |-> ("lumber" :> 5), outputs |-> ("sawdust" :> 5),
        byproducts |-> EmptyDict,
        cycle_time_minutes |-> 60, workers_required |-> 1,
        skill_used |-> "", min_skill |-> 0, waste_chance |-> 0] >>

(***************************************************************************)
(* Arguments the callers pass: known and unknown identifiers, and worker   *)
(* counts and run counts of either sign.                                   *)
(***************************************************************************)
ResourceArgs == {"logs", "lumber", "gold"}
FacilityArgs == {"sawmill", "woodworker_hut", "castle"}
BuiltArgs == {"sawmill", "woodworker_hut"}
RecipeArgs == {"saw_lumber", "press_sawdust", "whittle", "forge_sword"}
WorkersArgs == (0 - 1)..MaxWorkersArg
TimesArgs == {0 - 1} \cup (1..MaxTimes)

(***************************************************************************)
(* Inventory (items is a defaultdict(float): a read of a missing key       *)
(* through items[item] inserts it with value 0).                           *)
(***************************************************************************)
InvGet(items, item) == DictGet(items, item, 0)

(* Variant of has: a strict comparison. *)
InvHas_strict(items, item, amount) == DictGet(items, item, 0) > amount

InvHas(items, item, amount) == DictGet(items, item, 0) >= amount

(* Variant of add: the amount replaces the stored quantity. *)
InvAdd_overwrites(items, item, amount) ==
    [k \in DOMAIN items \cup {item} |->
        IF k = item THEN amount ELSE items[k]]

InvAdd(items, item, amount) ==
    [k \in DOMAIN items \cup {item} |->
        IF k = item THEN DictGet(items, item, 0) + amount ELSE items[k]]

(* Variant of remove: a strict comparison. *)
InvRemove_strict(items, item, amount) ==
    LET touched == [k \in DOMAIN items \cup {item} |-> DictGet(items, k, 0)]
    IN  IF touched[item] > amount
        THEN [ok |-> TRUE, items |-> [touched EXCEPT ![item] = @ - amount]]
        ELSE [ok |-> FALSE, items |-> touched]

InvRemove(items, item, amount) ==
    LET touched == [k \in DOMAIN items \cup {item} |-> DictGet(items, k, 0)]
    IN  IF touched[item] >= amount
        THEN LET left == touched[item] - amount
             IN  [ok |-> TRUE,
                  items |-> IF left = 0
                            THEN [k \in DOMAIN touched \ {item} |-> touched[k]]
                            ELSE [touched EXCEPT ![item] = left]]
        ELSE [ok |-> FALSE, items |-> touched]

(***************************************************************************)
(* Facility instances.  Village.facilities is a dict in insertion order:   *)
(* a sequence of Facility records, one per built facility_id.              *)
(***************************************************************************)
Facility(facility_id, capacity, enabled_recipes) ==
    [facility_id |-> facility_id, capacity |-> capacity,
     workers_assigned |-> 0, enabled_recipes |-> enabled_recipes]

(* Variant of can_work: no worker needed. *)
can_work_always(facility) == TRUE

can_work(facility) == facility.workers_assigned > 0

FacilityIds(facs) == {facs[i].facility_id : i \in DOMAIN facs}

FacilityIndex(facs, facility_id) ==
    CHOOSE i \in DOMAIN facs : facs[i].facility_id = facility_id

FacilityOf(facs, facility_id) == facs[FacilityIndex(facs, facility_id)]

(***************************************************************************)
(* Village.recipes is a dict keyed by id in load order: a sequence of      *)
(* recipe records carrying their id.                                       *)
(***************************************************************************)
RecipeIds(rs) == {rs[i].id : i \in DOMAIN rs}

RecipeOf(rs, recipe_id) == rs[CHOOSE i \in DOMAIN rs : rs[i].id = recipe_id]

(***************************************************************************)
(* GameEngine.get_all_goods: {**raw_goods, **produced_goods}.              *)
(***************************************************************************)
get_all_goods(raw, produced) ==
    [g \in DOMAIN raw \cup DOMAIN produced |->
        IF g \in DOMAIN produced THEN produced[g] ELSE raw[g]]

(***************************************************************************)
(* GameEngine.gather_resources.                                            *)
(***************************************************************************)
(* Variant of base_amount: the 10 units per worker at 100% are missing. *)
GatherAmount_rate_only(workers, gather_rate) == (workers * gather_rate) \div 100

GatherAmount(workers, gather_rate) == (workers * gather_rate * 10) \div 100

gather_resources(raw, produced, items, resource, workers) ==
    LET goods == get_all_goods(raw, produced)
    IN  IF resource \notin DOMAIN goods
        THEN [ret |-> 0, items |-> items]
        ELSE LET gather_rate == DictGet(goods[resource], "gather_rate", 0)
             IN  IF gather_rate = 0
                 THEN [ret |-> 0, items |-> items]
                 ELSE LET base_amount == GatherAmount(workers, gather_rate)
                      IN  [ret |-> base_amount,
                           items |-> InvAdd(items, resource, base_amount)]

(***************************************************************************)
(* Loops of the engine over a mapping good -> amount.                      *)
(***************************************************************************)
HasAll(items, amounts) ==
    \A item \in DOMAIN amounts : InvHas(items, item, amounts[item])

RECURSIVE RemoveEach(_, _, _)
RemoveEach(items, amounts, todo) ==
    IF todo = {}
    THEN items
    ELSE LET item == CHOOSE x \in todo : TRUE
         IN  RemoveEach(InvRemove(items, item, amounts[item]).items,
                        amounts, todo \ {item})

(* Variant of the consume loop: it stops after the first good. *)
RemoveAll_first_only(items, amounts) ==
    IF DOMAIN amounts = {}
    THEN items
    ELSE LET item == CHOOSE x \in DOMAIN amounts : TRUE
         IN  InvRemove(items, item, amounts[item]).items

RemoveAll(items, amounts) == RemoveEach(items, amounts, DOMAIN amounts)

RECURSIVE AddEach(_, _, _)
AddEach(items, amounts, todo) ==
    IF todo = {}
    THEN items
    ELSE LET item == CHOOSE x \in todo : TRUE
         IN  AddEach(InvAdd(items, item, amounts[item]), amounts, todo \ {item})

AddAll(items, amounts) == AddEach(items, amounts, DOMAIN amounts)

(***************************************************************************)
(* GameEngine.build_facility.                                              *)
(***************************************************************************)
(* Variant of build_facility: the already-built test is missing. *)
build_facility_rebuilds(compound, facs, items, facility_id) ==
    LET defs == DictGet(compound, "facilities", EmptyDict)
        unchanged == [ok |-> FALSE, items |-> items, facilities |-> facs]
    IN  IF facility_id \notin DOMAIN defs
        THEN unchanged
        ELSE LET facility_data == defs[facility_id]
                 inputs == DictGet(facility_data, "inputs", EmptyDict)
             IN  IF ~HasAll(items, inputs)
                 THEN unchanged
                 ELSE [ok |-> TRUE,
                       items |-> RemoveAll(items, inputs),
                       facilities |->
                           Append(facs,
                                  Facility(facility_id,
                                           DictGet(facility_data, "capacity", DefaultCapacity),
                                           DictGet(facility_data, "enables_recipes", <<>>)))]

build_facility(compound, facs, items, facility_id) ==
    LET defs == DictGet(compound, "facilities", EmptyDict)
        unchanged == [ok |-> FALSE, items |-> items, facilities |-> facs]
    IN  IF facility_id \notin DOMAIN defs
        THEN unchanged
        ELSE IF facility_id \in FacilityIds(facs)
        THEN unchanged
        ELSE LET facility_data == defs[facility_id]
                 inputs == DictGet(facility_data, "inputs", EmptyDict)
             IN  IF ~HasAll(items, inputs)
                 THEN unchanged
                 ELSE [ok |-> TRUE,
                       items |-> RemoveAll(items, inputs),
                       facilities |->
                           Append(facs,
                                  Facility(facility_id,
                                           DictGet(facility_data, "capacity", DefaultCapacity),
                                           DictGet(facility_data, "enables_recipes", <<>>)))]

(***************************************************************************)
(* GameEngine.assign_worker and GameEngine.unassign_worker.                *)
(***************************************************************************)
(* Variant of assign_worker: the capacity test is missing. *)
assign_worker_no_capacity(facs, idle, facility_id, workers) ==
    LET unchanged == [ok |-> FALSE, facilities |-> facs, idle_workers |-> idle]
    IN  IF facility_id \notin FacilityIds(facs)
        THEN unchanged
        ELSE IF idle < workers
        THEN unchanged
        ELSE LET i == FacilityIndex(facs, facility_id)
             IN  [ok |-> TRUE,
                  facilities |->
                      [facs EXCEPT ![i].workers_assigned = @ + workers],
                  idle_workers |-> idle - workers]

assign_worker(facs, idle, facility_id, workers) ==
    LET unchanged == [ok |-> FALSE, facilities |-> facs, idle_workers |-> idle]
    IN  IF facility_id \notin FacilityIds(facs)
        THEN unchanged
        ELSE IF idle < workers
        THEN unchanged
        ELSE LET i == FacilityIndex(facs, facility_id)
             IN  IF facs[i].workers_assigned + workers > facs[i].capacity
                 THEN unchanged
                 ELSE [ok |-> TRUE,
                       facilities |->
                           [facs EXCEPT ![i].workers_assigned = @ + workers],
                       idle_workers |-> idle - workers]

(* Variant of unassign_worker: idle_workers is not credited. *)
unassign_worker_keeps_idle(facs, idle, facility_id, workers) ==
    LET unchanged == [ok |-> FALSE, facilities |-> facs, idle_workers |-> idle]
    IN  IF facility_id \notin FacilityIds(facs)
        THEN unchanged
        ELSE LET i == FacilityIndex(facs, facility_id)
             IN  IF facs[i].workers_assigned < workers
                 THEN unchanged
                 ELSE [ok |-> TRUE,
                       facilities |->
                           [facs EXCEPT ![i].workers_assigned = @ - workers],
                       idle_workers |-> idle]

(* Variant of unassign_worker: a facility left without workers is torn down. *)
unassign_worker_razes_empty(facs, idle, facility_id, workers) ==
    LET unchanged == [ok |-> FALSE, facilities |-> facs, idle_workers |-> idle]
    IN  IF facility_id \notin FacilityIds(facs)
        THEN unchanged
        ELSE LET i == FacilityIndex(facs, facility_id)
             IN  IF facs[i].workers_assigned < workers
                 THEN unchanged
                 ELSE [ok |-> TRUE,
                       facilities |->
                           IF facs[i].workers_assigned - workers = 0
                           THEN SelectSeq(facs, LAMBDA f : f.facility_id # facility_id)
                           ELSE [facs EXCEPT ![i].workers_assigned = @ - workers],
                       idle_workers |-> idle + workers]

unassign_worker(facs, idle, facility_id, workers) ==
    LET unchanged == [ok |-> FALSE, facilities |-> facs, idle_workers |-> idle]
    IN  IF facility_id \notin FacilityIds(facs)
        THEN unchanged
        ELSE LET i == FacilityIndex(facs, facility_id)
             IN  IF facs[i].workers_assigned < workers
                 THEN unchanged
                 ELSE [ok |-> TRUE,
                       facilities |->
                           [facs EXCEPT ![i].workers_assigned = @ - workers],
                       idle_workers |-> idle + workers]

(***************************************************************************)
(* GameEngine.run_recipe.                                                  *)
(***************************************************************************)
(* Variant of the run loop: the byproducts are not added. *)
RECURSIVE RunLoop_no_byproducts(_, _, _, _)
RunLoop_no_byproducts(items, recipe, remaining, successful) ==
    IF remaining <= 0
    THEN [ret |-> successful, items |-> items]
    ELSE IF ~HasAll(items, recipe.inputs)
    THEN [ret |-> successful, items |-> items]
    ELSE RunLoop_no_byproducts(AddAll(RemoveAll(items, recipe.inputs), recipe.outputs),
                               recipe, remaining - 1, successful + 1)

(* Variant of the run loop: it leaves the loop after the first run. *)
RunLoop_once(items, recipe, remaining, successful) ==
    IF remaining <= 0
    THEN [ret |-> successful, items |-> items]
    ELSE IF ~HasAll(items, recipe.inputs)
    THEN [ret |-> successful, items |-> items]
    ELSE [ret |-> successful + 1,
          items |-> AddAll(AddAll(RemoveAll(items, recipe.inputs), recipe.outputs),
                           recipe.byproducts)]

RECURSIVE RunLoop(_, _, _, _)
RunLoop(items, recipe, remaining, successful) ==
    IF remaining <= 0
    THEN [ret |-> successful, items |-> items]
    ELSE IF ~HasAll(items, recipe.inputs)
    THEN [ret |-> successful, items |-> items]
    ELSE RunLoop(AddAll(AddAll(RemoveAll(items, recipe.inputs), recipe.outputs),
                        recipe.byproducts),
                 recipe, remaining - 1, successful + 1)

(* Variant of run_recipe: the facility needs workers_required workers. *)
run_recipe_requires_workers(rs, facs, items, recipe_id, facility_id, times) ==
    IF recipe_id \notin RecipeIds(rs)
    THEN [ret |-> 0, items |-> items]
    ELSE IF facility_id \notin FacilityIds(facs)
    THEN [ret |-> 0, items |-> items]
    ELSE IF RecipeOf(rs, recipe_id).facility # facility_id
    THEN [ret |-> 0, items |-> items]
    ELSE IF FacilityOf(facs, facility_id).workers_assigned
                < RecipeOf(rs, recipe_id).workers_required
    THEN [ret |-> 0, items |-> items]
    ELSE IF ~can_work(FacilityOf(facs, facility_id))
    THEN [ret |-> 0, items |-> items]
    ELSE RunLoop(items, RecipeOf(rs, recipe_id), times, 0)

(* Variant of run_recipe: a batch that cannot be completed runs nothing. *)
run_recipe_all_or_nothing(rs, facs, items, recipe_id, facility_id, times) ==
    IF recipe_id \notin RecipeIds(rs)
    THEN [ret |-> 0, items |-> items]
    ELSE IF facility_id \notin FacilityIds(facs)
    THEN [ret |-> 0, items |-> items]
    ELSE IF RecipeOf(rs, recipe_id).facility # facility_id
    THEN [ret |-> 0, items |-> items]
    ELSE IF ~can_work(FacilityOf(facs, facility_id))
    THEN [ret |-> 0, items |-> items]
    ELSE LET r == RunLoop(items, RecipeOf(rs, recipe_id), times, 0)
         IN  IF r.ret < times THEN [ret |-> 0, items |-> items] ELSE r

run_recipe(rs, facs, items, recipe_id, facility_id, times) ==
    IF recipe_id \notin RecipeIds(rs)
    THEN [ret |-> 0, items |-> items]
    ELSE IF facility_id \notin FacilityIds(facs)
    THEN [ret |-> 0, items |-> items]
    ELSE IF RecipeOf(rs, recipe_id).facility # facility_id
    THEN [ret |-> 0, items |-> items]
    ELSE IF ~can_work(FacilityOf(facs, facility_id))
    THEN [ret |-> 0, items |-> items]
    ELSE RunLoop(items, RecipeOf(rs, recipe_id), times, 0)

(***************************************************************************)
(* GameEngine.advance_day: facilities in build order, and for each staffed *)
(* one the recipes in load order, each batch on the inventory the previous *)
(* batch left.                                                             *)
(***************************************************************************)
Max(a, b) == IF a >= b THEN a ELSE b

(* Variant of runs_per_worker: the floor to one run is missing. *)
RunsPerWorker_no_floor(recipe) ==
    LET recipe_cycle == IF recipe.cycle_time_minutes = 0
                        THEN DefaultCycleTime
                        ELSE recipe.cycle_time_minutes
    IN  (WorkHoursPerDay * 60) \div recipe_cycle

RunsPerWorker(recipe) ==
    LET recipe_cycle == IF recipe.cycle_time_minutes = 0
                        THEN DefaultCycleTime
                        ELSE recipe.cycle_time_minutes
    IN  Max(1, (WorkHoursPerDay * 60) \div recipe_cycle)

(* Variant of the recipe loop: a facility works on its first recipe only. *)
RECURSIVE DayRecipes_first_only(_, _, _, _, _)
DayRecipes_first_only(rs, facs, items, facility, j) ==
    IF j > Len(rs)
    THEN items
    ELSE IF rs[j].facility = facility.facility_id
    THEN LET runs == facility.workers_assigned * RunsPerWorker(rs[j])
         IN  IF runs > 0
             THEN run_recipe(rs, facs, items, rs[j].id,
                             facility.facility_id, runs).items
             ELSE items
    ELSE DayRecipes_first_only(rs, facs, items, facility, j + 1)

(* Variant of the recipe loop: the recipes are taken in reverse load order. *)
RECURSIVE DayRecipes_reversed(_, _, _, _, _)
DayRecipes_reversed(rs, facs, items, facility, j) ==
    IF j > Len(rs)
    THEN items
    ELSE LET recipe == rs[Len(rs) + 1 - j]
         IN  IF recipe.facility = facility.facility_id
             THEN LET runs == facility.workers_assigned * RunsPerWorker(recipe)
                  IN  DayRecipes_reversed(rs, facs,
                                          IF runs > 0
                                          THEN run_recipe(rs, facs, items, recipe.id,
                                                          facility.facility_id, runs).items
                                          ELSE items,
                                          facility, j + 1)
             ELSE DayRecipes_reversed(rs, facs, items, facility, j + 1)

RECURSIVE DayRecipes(_, _, _, _, _)
DayRecipes(rs, facs, items, facility, j) ==
    IF j > Len(rs)
    THEN items
    ELSE IF rs[j].facility = facility.facility_id
    THEN LET runs == facility.workers_assigned * RunsPerWorker(rs[j])
         IN  DayRecipes(rs, facs,
                        IF runs > 0
                        THEN run_recipe(rs, facs, items, rs[j].id,
                                        facility.facility_id, runs).items
                        ELSE items,
                        facility, j + 1)
    ELSE DayRecipes(rs, facs, items, facility, j + 1)

RECURSIVE DayFacilities(_, _, _, _)
DayFacilities(rs, facs, items, i) ==
    IF i > Len(facs)
    THEN items
    ELSE IF facs[i].workers_assigned > 0
    THEN DayFacilities(rs, facs, DayRecipes(rs, facs, items, facs[i], 1), i + 1)
    ELSE DayFacilities(rs, facs, items, i + 1)

(* Variant of advance_day: the day advances only if something was produced. *)
advance_day_if_produced(rs, facs, items, d) ==
    LET produced == DayFacilities(rs, facs, items, 1)
    IN  [items |-> produced, day |-> IF produced = items THEN d ELSE d + 1]

advance_day(rs, facs, items, d) ==
    [items |-> DayFacilities(rs, facs, items, 1), day |-> d + 1]

(***************************************************************************)
(* The run_recipe calls advance_day makes, in order and with their         *)
(* arguments: the same two loops, which read only workers_assigned and the *)
(* recipes, never the inventory.                                           *)
(***************************************************************************)
RECURSIVE DayRecipeCalls(_, _, _)
DayRecipeCalls(rs, facility, j) ==
    IF j > Len(rs)
    THEN <<>>
    ELSE IF rs[j].facility = facility.facility_id
    THEN LET runs == facility.workers_assigned * RunsPerWorker(rs[j])
         IN  (IF runs > 0
              THEN <<[recipe_id |-> rs[j].id,
                      facility_id |-> facility.facility_id,
                      times |-> runs]>>
              ELSE <<>>) \o DayRecipeCalls(rs, facility, j + 1)
    ELSE DayRecipeCalls(rs, facility, j + 1)

RECURSIVE DayCallsFrom(_, _, _)
DayCallsFrom(rs, facs, i) ==
    IF i > Len(facs)
    THEN <<>>
    ELSE IF facs[i].workers_assigned > 0
    THEN DayRecipeCalls(rs, facs[i], 1) \o DayCallsFrom(rs, facs, i + 1)
    ELSE DayCallsFrom(rs, facs, i + 1)

DayCalls(rs, facs) == DayCallsFrom(rs, facs, 1)

RECURSIVE RunCalls(_, _, _, _)
RunCalls(rs, facs, items, calls) ==
    IF calls = <<>>
    THEN items
    ELSE RunCalls(rs, facs,
                  run_recipe(rs, facs, items, Head(calls).recipe_id,
                             Head(calls).facility_id, Head(calls).times).items,
                  Tail(calls))

(***************************************************************************)
(* Values read from the data files.  A parsed YAML document, and a value   *)
(* inside it, is a mapping, a sequence, a string or null; the loader and   *)
(* the operations apply dict methods to them without testing the type, so  *)
(* the value carries its Python type.                                      *)
(***************************************************************************)
None == [type |-> "NoneType"]

DictValue(d) == [type |-> "dict", value |-> d]

ListValue(l) == [type |-> "list", value |-> l]

StrValue(str) == [type |-> "str", value |-> str]

(* bool(value) as `yaml.safe_load(f) or {}` evaluates it. *)
Truthy(v) ==
    IF v.type = "NoneType" THEN FALSE
    ELSE IF v.type = "list" THEN v.value # <<>>
    ELSE IF v.type = "dict" THEN DOMAIN v.value # {}
    ELSE v.value # ""

(* len(value): a TypeError for null. *)
HasLen(v) == v.type # "NoneType"

(***************************************************************************)
(* A data file is missing, unparsable, or parsed into a document.          *)
(* safe_load_yaml catches every exception of open and yaml.safe_load and   *)
(* returns {} for it; a falsy document (empty file, empty sequence) also   *)
(* becomes {}; any other document is returned as it is.                    *)
(***************************************************************************)
Missing == [state |-> "missing"]

Unparsable == [state |-> "unparsable"]

Parsed(document) == [state |-> "parsed", document |-> document]

FileOf(files, filename) ==
    IF filename \in DOMAIN files THEN files[filename] ELSE Missing

safe_load_yaml(files, filename) ==
    LET file == FileOf(files, filename)
    IN  IF file.state # "parsed"
        THEN DictValue(EmptyDict)
        ELSE IF Truthy(file.document)
        THEN file.document
        ELSE DictValue(EmptyDict)

(* data.get(key, default): an AttributeError unless data is a mapping. *)
CategoryOf(data, key, default) ==
    IF data.type # "dict"
    THEN [raised |-> "AttributeError", value |-> default]
    ELSE [raised |-> "", value |-> DictGet(data.value, key, default)]

(***************************************************************************)
(* GameEngine.load_game_data, the recipes loop.  A record of the recipe    *)
(* list is a mapping from field names to values; its facility is a string  *)
(* or null and so carries its type.  The loaded recipes are a dict keyed   *)
(* by id, kept as the sequence of its entries in insertion order: an       *)
(* assignment to an id that is already a key replaces the entry where it   *)
(* stands.                                                                 *)
(***************************************************************************)
DefaultInputs == EmptyDict
DefaultOutputs == EmptyDict
DefaultByproducts == EmptyDict
DefaultWorkersRequired == 1
DefaultSkillUsed == ""
DefaultMinSkill == 0
DefaultWasteChance == 0

NormaliseRecipe(rid, recipe) ==
    [id |-> rid,
     facility |-> DictGet(recipe, "facility", None),
     inputs |-> DictGet(recipe, "inputs", DefaultInputs),
     outputs |-> DictGet(recipe, "outputs", DefaultOutputs),
     byproducts |-> DictGet(recipe, "byproducts", DefaultByproducts),
     cycle_time_minutes |-> DictGet(recipe, "cycle_time_minutes", DefaultCycleTime),
     workers_required |-> DictGet(recipe, "workers_required", DefaultWorkersRequired),
     skill_used |-> DictGet(recipe, "skill_used", DefaultSkillUsed),
     min_skill |-> DictGet(recipe, "min_skill", DefaultMinSkill),
     waste_chance |-> DictGet(recipe, "waste_chance", DefaultWasteChance)]

(* recipes_dict[rid] = record *)
PutRecipe(recipes_dict, record) ==
    IF record.id \in RecipeIds(recipes_dict)
    THEN [i \in DOMAIN recipes_dict |->
             IF recipes_dict[i].id = record.id THEN record ELSE recipes_dict[i]]
    ELSE Append(recipes_dict, record)

(* Variant of the loop: a record without an id ends the loading. *)
RECURSIVE LoadRecipes_stops_at_missing_id(_, _, _)
LoadRecipes_stops_at_missing_id(recipes_list, i, recipes_dict) ==
    IF i > Len(recipes_list)
    THEN [raised |-> "", recipes |-> recipes_dict]
    ELSE LET recipe == recipes_list[i]
         IN  IF recipe.type # "dict"
             THEN [raised |-> "AttributeError", recipes |-> recipes_dict]
             ELSE LET rid == DictGet(recipe.value, "id", "")
                  IN  IF rid = ""
                      THEN [raised |-> "", recipes |-> recipes_dict]
                      ELSE LoadRecipes_stops_at_missing_id(recipes_list, i + 1,
                               PutRecipe(recipes_dict,
                                         NormaliseRecipe(rid, recipe.value)))

(* for recipe in recipes_list, from its i-th element on.  recipe.get      *)
(* raises an AttributeError unless the element is a mapping; `not rid` is  *)
(* true for an absent id (None) and for the empty string.                  *)
RECURSIVE LoadRecipes(_, _, _)
LoadRecipes(recipes_list, i, recipes_dict) ==
    IF i > Len(recipes_list)
    THEN [raised |-> "", recipes |-> recipes_dict]
    ELSE LET recipe == recipes_list[i]
         IN  IF recipe.type # "dict"
             THEN [raised |-> "AttributeError", recipes |-> recipes_dict]
             ELSE LET rid == DictGet(recipe.value, "id", "")
                  IN  IF rid = ""
                      THEN LoadRecipes(recipes_list, i + 1, recipes_dict)
                      ELSE LoadRecipes(recipes_list, i + 1,
                               PutRecipe(recipes_dict,
                                         NormaliseRecipe(rid, recipe.value)))

(* The loop over whatever recipes_data.get("recipes", []) returned: null   *)
(* is not iterable (TypeError); a mapping and a string iterate over their  *)
(* keys and characters, which are strings without a get method.            *)
IterateRecipes(recipes_list) ==
    IF recipes_list.type = "NoneType"
    THEN [raised |-> "TypeError", recipes |-> <<>>]
    ELSE IF recipes_list.type = "list"
    THEN LoadRecipes(recipes_list.value, 1, <<>>)
    ELSE IF Truthy(recipes_list)
    THEN [raised |-> "AttributeError", recipes |-> <<>>]
    ELSE [raised |-> "", recipes |-> <<>>]

(***************************************************************************)
(* GameEngine.load_game_data.  The result is the exception that left the   *)
(* constructor, or the four loaded categories.  raw_goods, produced_goods  *)
(* and the three compound categories are whatever value stood under the    *)
(* category key; the summary line takes len() of three of them.            *)
(***************************************************************************)
LoadFailed(exception) ==
    [raised |-> exception]

LoadFiles ==
    <<"raw_goods.yaml", "produced_goods.yaml", "facilities.yaml",
      "fixtures.yaml", "equipment.yaml", "recipes.yaml">>

LoadKeys ==
    <<"goods", "goods", "facilities", "fixtures", "equipment", "recipes">>

load_game_data(files) ==
    LET Get(i) == CategoryOf(safe_load_yaml(files, LoadFiles[i]), LoadKeys[i],
                             IF i = 6 THEN ListValue(<<>>) ELSE DictValue(EmptyDict))
        stopped == {i \in 1..6 : Get(i).raised # ""}
        loaded == IterateRecipes(Get(6).value)
    IN  IF stopped # {}
        THEN LoadFailed(Get(CHOOSE i \in stopped : \A j \in stopped : i <= j).raised)
        ELSE IF loaded.raised # ""
        THEN LoadFailed(loaded.raised)
        ELSE IF ~(HasLen(Get(1).value) /\ HasLen(Get(2).value) /\ HasLen(Get(3).value))
        THEN LoadFailed("TypeError")
        ELSE [raised |-> "",
              raw_goods |-> Get(1).value,
              produced_goods |-> Get(2).value,
              compound_goods |-> [facilities |-> Get(3).value,
                                  fixtures |-> Get(4).value,
                                  equipment |-> Get(5).value],
              recipes |-> loaded.recipes]

(***************************************************************************)
(* convert_recipes.py.  Amounts, cycle times and worker counts are whole   *)
(* numbers, on which float(), int() and the division by 60.0 are exact.    *)
(* A legacy recipes mapping is kept as the sequence of its (id, record)    *)
(* items, in the order dict.items() yields them; its ids are distinct.     *)
(***************************************************************************)
DefaultPerUnitKg == 1
SecondsPerMinute == 60

(* load_goods: per_unit_kg of every good of the two catalogues, the later  *)
(* file overriding the earlier.                                            *)
load_goods(raw, produced) ==
    LET goods == get_all_goods(raw, produced)
    IN  [gid \in DOMAIN goods |->
            DictGet(DictGet(goods[gid], "measure", EmptyDict),
                    "per_unit_kg", DefaultPerUnitKg)]

convert_amounts(mapping, per_kg_map) ==
    [item \in DOMAIN mapping |->
        mapping[item] * DictGet(per_kg_map, item, DefaultPerUnitKg)]

(* math.ceil(float(s) / 60.0) *)
CeilMinutes(s) == (s + SecondsPerMinute - 1) \div SecondsPerMinute

(* Variant of convert_recipe: a record without labor or workers_required   *)
(* gets no worker. *)
convert_recipe_no_default_workers(old_id, old_obj, per_kg_map) ==
    [id |-> old_id,
     facility |-> DictGet(old_obj, "facility", None),
     inputs |-> convert_amounts(DictGet(old_obj, "inputs", EmptyDict), per_kg_map),
     outputs |-> convert_amounts(DictGet(old_obj, "outputs", EmptyDict), per_kg_map),
     byproducts |-> convert_amounts(DictGet(old_obj, "byproducts", EmptyDict), per_kg_map),
     cycle_time_minutes |->
         IF "cycle_time_s" \in DOMAIN old_obj
         THEN CeilMinutes(old_obj["cycle_time_s"])
         ELSE DictGet(old_obj, "cycle_time_minutes", DefaultCycleTime),
     workers_required |->
         DictGet(old_obj, "labor", DictGet(old_obj, "workers_required", 0)),
     skill_used |->
         DictGet(old_obj, "skill_used", DictGet(old_obj, "skill", DefaultSkillUsed)),
     min_skill |-> DictGet(old_obj, "min_skill", DefaultMinSkill),
     waste_chance |-> DictGet(old_obj, "waste_chance", DefaultWasteChance)]

convert_recipe(old_id, old_obj, per_kg_map) ==
    [id |-> old_id,
     facility |-> DictGet(old_obj, "facility", None),
     inputs |-> convert_amounts(DictGet(old_obj, "inputs", EmptyDict), per_kg_map),
     outputs |-> convert_amounts(DictGet(old_obj, "outputs", EmptyDict), per_kg_map),
     byproducts |-> convert_amounts(DictGet(old_obj, "byproducts", EmptyDict), per_kg_map),
     cycle_time_minutes |->
         IF "cycle_time_s" \in DOMAIN old_obj
         THEN CeilMinutes(old_obj["cycle_time_s"])
         ELSE DictGet(old_obj, "cycle_time_minutes", DefaultCycleTime),
     workers_required |->
         DictGet(old_obj, "labor",
                 DictGet(old_obj, "workers_required", DefaultWorkersRequired)),
     skill_used |->
         DictGet(old_obj, "skill_used", DictGet(old_obj, "skill", DefaultSkillUsed)),
     min_skill |-> DictGet(old_obj, "min_skill", DefaultMinSkill),
     waste_chance |-> DictGet(old_obj, "waste_chance", DefaultWasteChance)]

(* A legacy recipes value: a mapping (its items) or a list (its entries). *)
LegacyMapping(items) == [type |-> "dict", items |-> items]

(* entry.get('id') or entry.get('name') or 'unnamed' *)
EntryId(entry) ==
    IF DictGet(entry, "id", "") # "" THEN entry["id"]
    ELSE IF DictGet(entry, "name", "") # "" THEN entry["name"]
    ELSE "unnamed"

(* main: the converted recipes, in the order of the legacy file, and the   *)
(* document written to the output file.                                    *)
ConvertAll(old_recipes, per_kg_map) ==
    IF old_recipes.type = "dict"
    THEN [i \in DOMAIN old_recipes.items |->
             convert_recipe(old_recipes.items[i][1], old_recipes.items[i][2],
                            per_kg_map)]
    ELSE [i \in DOMAIN old_recipes.value |->
             convert_recipe(EntryId(old_recipes.value[i]), old_recipes.value[i],
                            per_kg_map)]

ConvertedDocument(new_recipes) ==
    DictValue(("schema_version" :> StrValue("3.5")) @@
              ("file" :> StrValue("recipes.yaml")) @@
              ("recipes" :> ListValue([i \in DOMAIN new_recipes |->
                                          DictValue(new_recipes[i])])))

(***************************************************************************)
(* The state machine.  last is the operation just performed, with its      *)
(* identifier arguments and its return value (ok for the boolean           *)
(* operations, ret for the numeric ones); pre is the village as that       *)
(* operation found it.                                                     *)
(***************************************************************************)
Snapshot ==
    [day |-> day, population |-> population, idle_workers |-> idle_workers,
     inventory |-> inventory, facilities |-> facilities]

Call(op, id, fid, ok, ret) ==
    [op |-> op, id |-> id, fid |-> fid, ok |-> ok, ret |-> ret]

QtyInRange(items) ==
    \A g \in DOMAIN items : items[g] >= 0 - MaxDebt /\ items[g] <= MaxQty

Excess(x, lo, hi) == IF x < lo THEN lo - x ELSE IF x > hi THEN x - hi ELSE 0

RECURSIVE FacilityDrift(_, _)
FacilityDrift(facs, i) ==
    IF i > Len(facs)
    THEN 0
    ELSE Excess(facs[i].workers_assigned, 0, facs[i].capacity)
         + FacilityDrift(facs, i + 1)

WorkersInRange(facs, idle) ==
    /\ Excess(idle, 0, InitialPopulation) <= MaxDrift
    /\ FacilityDrift(facs, 1) <= MaxDrift

Playing == day < MaxDay

Static == <<population, raw_goods, produced_goods, compound_goods, recipes>>

Init ==
    /\ day = InitialDay
    /\ population = InitialPopulation
    /\ idle_workers = InitialIdleWorkers
    /\ inventory = EmptyDict
    /\ facilities = <<>>
    /\ raw_goods = RawGoodsData
    /\ produced_goods = ProducedGoodsData
    /\ compound_goods = CompoundGoodsData
    /\ recipes = RecipesData
    /\ last = Call("init", "", "", FALSE, 0)
    /\ pre = [day |-> InitialDay, population |-> InitialPopulation,
              idle_workers |-> InitialIdleWorkers,
              inventory |-> EmptyDict, facilities |-> <<>>]

(* Variant of the gather operation: the workers sent are taken from the idle ones. *)
GatherResourcesCall_takes_idle(resource, workers) ==
    LET r == gather_resources(raw_goods, produced_goods, inventory,
                              resource, workers)
    IN  /\ Playing
        /\ QtyInRange(r.items)
        /\ inventory' = r.items
        /\ idle_workers' = idle_workers - workers
        /\ last' = Call("gather_resources", resource, "", FALSE, r.ret)
        /\ pre' = Snapshot
        /\ UNCHANGED <<day, facilities, Static>>

GatherResourcesCall(resource, workers) ==
    LET r == gather_resources(raw_goods, produced_goods, inventory,
                              resource, workers)
    IN  /\ Playing
        /\ QtyInRange(r.items)
        /\ inventory' = r.items
        /\ last' = Call("gather_resources", resource, "", FALSE, r.ret)
        /\ pre' = Snapshot
        /\ UNCHANGED <<day, idle_workers, facilities, Static>>

BuildFacilityCall(facility_id) ==
    LET r == build_facility(compound_goods, facilities, inventory, facility_id)
    IN  /\ Playing
        /\ inventory' = r.items
        /\ facilities' = r.facilities
        /\ last' = Call("build_facility", "", facility_id, r.ok, 0)
        /\ pre' = Snapshot
        /\ UNCHANGED <<day, idle_workers, Static>>

(* Variant of the assign operation: the workers leave the population. *)
AssignWorkerCall_takes_population(facility_id, workers) ==
    LET r == assign_worker(facilities, idle_workers, facility_id, workers)
    IN  /\ Playing
        /\ WorkersInRange(r.facilities, r.idle_workers)
        /\ facilities' = r.facilities
        /\ idle_workers' = r.idle_workers
        /\ population' = population - (idle_workers - r.idle_workers)
        /\ last' = Call("assign_worker", "", facility_id, r.ok, 0)
        /\ pre' = Snapshot
        /\ UNCHANGED <<day, inventory, raw_goods, produced_goods,
                       compound_goods, recipes>>

AssignWorkerCall(facility_id, workers) ==
    LET r == assign_worker(facilities, idle_workers, facility_id, workers)
    IN  /\ Playing
        /\ WorkersInRange(r.facilities, r.idle_workers)
        /\ facilities' = r.facilities
        /\ idle_workers' = r.idle_workers
        /\ last' = Call("assign_worker", "", facility_id, r.ok, 0)
        /\ pre' = Snapshot
        /\ UNCHANGED <<day, inventory, Static>>

UnassignWorkerCall(facility_id, workers) ==
    LET r == unassign_worker(facilities, idle_workers, facility_id, workers)
    IN  /\ Playing
        /\ WorkersInRange(r.facilities, r.idle_workers)
        /\ facilities' = r.facilities
        /\ idle_workers' = r.idle_workers
        /\ last' = Call("unassign_worker", "", facility_id, r.ok, 0)
        /\ pre' = Snapshot
        /\ UNCHANGED <<day, inventory, Static>>

RunRecipeCall(recipe_id, facility_id, times) ==
    LET r == run_recipe(recipes, facilities, inventory,
                        recipe_id, facility_id, times)
    IN  /\ Playing
        /\ QtyInRange(r.items)
        /\ inventory' = r.items
        /\ last' = Call("run_recipe", recipe_id, facility_id, FALSE, r.ret)
        /\ pre' = Snapshot
        /\ UNCHANGED <<day, idle_workers, facilities, Static>>

GatherResources ==
    \E resource \in ResourceArgs, workers \in WorkersArgs :
        GatherResourcesCall(resource, workers)

BuildFacility ==
    \E facility_id \in FacilityArgs : BuildFacilityCall(facility_id)

AssignWorker ==
    \E facility_id \in BuiltArgs, workers \in WorkersArgs :
        AssignWorkerCall(facility_id, workers)

UnassignWorker ==
    \E facility_id \in BuiltArgs, workers \in WorkersArgs :
        UnassignWorkerCall(facility_id, workers)

RunRecipe ==
    \E recipe_id \in RecipeArgs, facility_id \in BuiltArgs, times \in TimesArgs :
        RunRecipeCall(recipe_id, facility_id, times)

AdvanceDay ==
    LET r == advance_day(recipes, facilities, inventory, day)
    IN  /\ Playing
        /\ QtyInRange(r.items)
        /\ inventory' = r.items
        /\ day' = r.day
        /\ last' = Call("advance_day", "", "", FALSE, 0)
        /\ pre' = Snapshot
        /\ UNCHANGED <<idle_workers, facilities, Static>>

Next ==
    \/ GatherResources
    \/ BuildFacility
    \/ AssignWorker
    \/ UnassignWorker
    \/ RunRecipe
    \/ AdvanceDay

Spec == Init /\ [][Next]_vars

(***************************************************************************)
(* Vocabulary of the properties.                                           *)
(***************************************************************************)
RECURSIVE SumAssigned(_, _)
SumAssigned(facs, i) ==
    IF i > Len(facs) THEN 0 ELSE facs[i].workers_assigned + SumAssigned(facs, i + 1)

FacilityDefs == DictGet(compound_goods, "facilities", EmptyDict)

ConstructionInputs(facility_id) ==
    DictGet(FacilityDefs[facility_id], "inputs", EmptyDict)

LacksInput(items, amounts) ==
    \E item \in DOMAIN amounts : InvGet(items, item) < amounts[item]

VillageUnchanged ==
    /\ day = pre.day
    /\ population = pre.population
    /\ idle_workers = pre.idle_workers
    /\ inventory = pre.inventory
    /\ facilities = pre.facilities

Did(op) == last.op = op

(***************************************************************************)
(* C1  Worker conservation: in every reachable state idle_workers plus the *)
(* sum of workers_assigned over the built facilities equals population.    *)
(***************************************************************************)
C1_WorkerConservation ==
    idle_workers + SumAssigned(facilities, 1) = population

C1_Witness ==
    /\ Did("unassign_worker") /\ last.ok
    /\ idle_workers # pre.idle_workers
    /\ \E i \in DOMAIN facilities : facilities[i].workers_assigned > 0

(***************************************************************************)
(* C2  Every built facility has 0 <= workers_assigned <= capacity in every *)
(* reachable state, whatever integer counts assign_worker and              *)
(* unassign_worker are called with.                                        *)
(***************************************************************************)
C2_AssignedWithinCapacity ==
    \A i \in DOMAIN facilities :
        /\ facilities[i].workers_assigned >= 0
        /\ facilities[i].workers_assigned <= facilities[i].capacity

(***************************************************************************)
(* C3  idle_workers >= 0 in every reachable state.                         *)
(***************************************************************************)
C3_IdleNonNegative == idle_workers >= 0

(***************************************************************************)
(* C4  Every stored quantity of the inventory is >= 0 in every reachable   *)
(* state.                                                                  *)
(***************************************************************************)
C4_QuantitiesNonNegative ==
    \A g \in DOMAIN inventory : inventory[g] >= 0

(***************************************************************************)
(* C5  build_facility(facility_id) returns false and leaves the village    *)
(* unchanged when the facility is undefined, already built, or some        *)
(* construction input is short in the inventory; otherwise it returns true.*)
(***************************************************************************)
BuildMustFail(facility_id) ==
    \/ facility_id \notin DOMAIN FacilityDefs
    \/ facility_id \in FacilityIds(pre.facilities)
    \/ LacksInput(pre.inventory, ConstructionInputs(facility_id))

C5_BuildFailsCleanly ==
    Did("build_facility") =>
        IF BuildMustFail(last.fid)
        THEN ~last.ok /\ VillageUnchanged
        ELSE last.ok

C5_Witness ==
    /\ Did("build_facility") /\ ~last.ok
    /\ last.fid \in DOMAIN FacilityDefs
    /\ last.fid \notin FacilityIds(pre.facilities)
    /\ \E item \in DOMAIN ConstructionInputs(last.fid) :
          InvGet(pre.inventory, item) >= ConstructionInputs(last.fid)[item]
    /\ LacksInput(pre.inventory, ConstructionInputs(last.fid))

(***************************************************************************)
(* C6  build_facility is all-or-nothing: a failed call consumes nothing; a *)
(* successful call decreases every required input by exactly its required  *)
(* quantity, changes no other good, and appends exactly one Facility with  *)
(* workers_assigned = 0 and the definition's capacity and enabled recipes. *)
(***************************************************************************)
C6_BuildAllOrNothing ==
    Did("build_facility") =>
        IF last.ok
        THEN LET inputs == ConstructionInputs(last.fid)
                 def == FacilityDefs[last.fid]
                 built == facilities[Len(facilities)]
             IN  /\ \A g \in DOMAIN inventory \cup DOMAIN pre.inventory \cup DOMAIN inputs :
                        InvGet(inventory, g) = InvGet(pre.inventory, g) - DictGet(inputs, g, 0)
                 /\ Len(facilities) = Len(pre.facilities) + 1
                 /\ SubSeq(facilities, 1, Len(pre.facilities)) = pre.facilities
                 /\ built.facility_id = last.fid
                 /\ built.workers_assigned = 0
                 /\ "capacity" \in DOMAIN def => built.capacity = def.capacity
                 /\ built.enabled_recipes = def.enables_recipes
        ELSE \A g \in DOMAIN inventory \cup DOMAIN pre.inventory :
                 InvGet(inventory, g) = InvGet(pre.inventory, g)

C6_Witness ==
    /\ Did("build_facility") /\ last.ok
    /\ Cardinality(DOMAIN ConstructionInputs(last.fid)) > 1
    /\ \E g \in DOMAIN inventory : g \notin DOMAIN ConstructionInputs(last.fid)

(***************************************************************************)
(* C7  At most one build_facility call per identifier succeeds: a call for *)
(* an identifier that is already built returns false and leaves the        *)
(* inventory unchanged, even when the inventory again holds every required *)
(* input, so no identifier is ever built twice.                            *)
(***************************************************************************)
C7_BuildAtMostOnce ==
    /\ \A i, j \in DOMAIN facilities :
          facilities[i].facility_id = facilities[j].facility_id => i = j
    /\ (Did("build_facility") /\ last.fid \in FacilityIds(pre.facilities)) =>
          (~last.ok /\ inventory = pre.inventory /\ facilities = pre.facilities)

C7_Witness ==
    /\ Did("build_facility")
    /\ last.fid \in FacilityIds(pre.facilities)
    /\ ~LacksInput(pre.inventory, ConstructionInputs(last.fid))
    /\ ~last.ok

(***************************************************************************)
(* C8  assign_worker(facility_id, workers) returns false and changes       *)
(* nothing if the facility is not built, if idle_workers < workers, or if  *)
(* workers_assigned + workers would exceed the capacity; otherwise it      *)
(* returns true, adds exactly workers to that facility's workers_assigned, *)
(* takes exactly workers from idle_workers and leaves every other facility *)
(* unchanged.                                                              *)
(***************************************************************************)
AssignMustFail(facility_id, workers) ==
    IF facility_id \notin FacilityIds(facilities)
    THEN TRUE
    ELSE \/ idle_workers < workers
         \/ FacilityOf(facilities, facility_id).workers_assigned + workers
               > FacilityOf(facilities, facility_id).capacity

AssignContract(facility_id, workers) ==
    IF AssignMustFail(facility_id, workers)
    THEN /\ ~last'.ok
         /\ UNCHANGED <<day, population, idle_workers, inventory, facilities>>
    ELSE /\ last'.ok
         /\ idle_workers' = idle_workers - workers
         /\ Len(facilities') = Len(facilities)
         /\ \A i \in DOMAIN facilities :
               IF facilities[i].facility_id = facility_id
               THEN facilities'[i] =
                        [facilities[i] EXCEPT
                            !.workers_assigned = facilities[i].workers_assigned + workers]
               ELSE facilities'[i] = facilities[i]
         /\ UNCHANGED <<day, population, inventory>>

C8_AssignWorkerContract ==
    [][last'.op = "assign_worker" =>
          \A facility_id \in BuiltArgs, workers \in WorkersArgs :
              AssignWorkerCall(facility_id, workers) =>
                  AssignContract(facility_id, workers)]_vars

C8_Witness ==
    /\ Did("assign_worker") /\ last.ok
    /\ Len(facilities) > 1
    /\ idle_workers < pre.idle_workers
    /\ \E i \in DOMAIN facilities :
          /\ facilities[i].facility_id # last.fid
          /\ facilities[i].workers_assigned > 0

(***************************************************************************)
(* C9  unassign_worker is the inverse of assign_worker: it fails without   *)
(* change if workers_assigned is below the requested count and otherwise   *)
(* moves that many workers back to idle_workers, so a successful           *)
(* assign_worker(f, w) immediately followed by unassign_worker(f, w)       *)
(* succeeds and restores the village as it was before the assignment.      *)
(***************************************************************************)
C9_AssignThenUnassignRestores ==
    [][(/\ last.op = "assign_worker" /\ last.ok
        /\ UnassignWorkerCall(last.fid, pre.idle_workers - idle_workers))
          => (/\ last'.ok
              /\ day' = pre.day
              /\ population' = pre.population
              /\ idle_workers' = pre.idle_workers
              /\ inventory' = pre.inventory
              /\ facilities' = pre.facilities)]_vars

(***************************************************************************)
(* C10  run_recipe returns 0 and leaves the village unchanged if the       *)
(* recipe is unknown, the facility is not built, the recipe's facility     *)
(* field differs from facility_id, or the facility has zero workers        *)
(* assigned, whatever the inventory holds and whatever times is.           *)
(***************************************************************************)
RunMustFail(recipe_id, facility_id) ==
    IF recipe_id \notin RecipeIds(recipes)
    THEN TRUE
    ELSE IF facility_id \notin FacilityIds(pre.facilities)
    THEN TRUE
    ELSE \/ RecipeOf(recipes, recipe_id).facility # facility_id
         \/ FacilityOf(pre.facilities, facility_id).workers_assigned = 0

C10_RunRecipeRefuses ==
    (Did("run_recipe") /\ RunMustFail(last.id, last.fid)) =>
        (last.ret = 0 /\ VillageUnchanged)

C10_Witness ==
    /\ Did("run_recipe") /\ last.ret = 0
    /\ last.id \in RecipeIds(recipes)
    /\ last.fid \in FacilityIds(pre.facilities)
    /\ RecipeOf(recipes, last.id).facility = last.fid
    /\ FacilityOf(pre.facilities, last.fid).workers_assigned = 0
    /\ ~LacksInput(pre.inventory, RecipeOf(recipes, last.id).inputs)

(***************************************************************************)
(* C11  run_recipe accounting: if run_recipe(r, f, n) returns k, then for  *)
(* every good the quantity after the call equals the quantity before,      *)
(* minus k times the recipe's input quantity, plus k times its output      *)
(* quantity, plus k times its byproduct quantity; an unknown recipe        *)
(* returns 0 and changes no quantity.                                      *)
(***************************************************************************)
RecipeGoods(recipe) ==
    DOMAIN recipe.inputs \cup DOMAIN recipe.outputs \cup DOMAIN recipe.byproducts

NetPerRun(recipe, g) ==
    DictGet(recipe.outputs, g, 0) + DictGet(recipe.byproducts, g, 0)
        - DictGet(recipe.inputs, g, 0)

C11_RunRecipeAccounting ==
    Did("run_recipe") =>
        IF last.id \in RecipeIds(recipes)
        THEN LET recipe == RecipeOf(recipes, last.id)
             IN  \A g \in DOMAIN inventory \cup DOMAIN pre.inventory
                              \cup RecipeGoods(recipe) :
                     InvGet(inventory, g) =
                         InvGet(pre.inventory, g) + last.ret * NetPerRun(recipe, g)
        ELSE /\ last.ret = 0
             /\ \A g \in DOMAIN inventory \cup DOMAIN pre.inventory :
                    InvGet(inventory, g) = InvGet(pre.inventory, g)

C11_Witness ==
    /\ Did("run_recipe") /\ last.ret = 2
    /\ DOMAIN RecipeOf(recipes, last.id).byproducts # {}
    /\ \E g \in DOMAIN RecipeOf(recipes, last.id).inputs : g \notin DOMAIN inventory

(***************************************************************************)
(* C12  run_recipe is best-effort and stops at the first unsatisfiable     *)
(* run.  For a call that is not refused (known recipe, built and staffed   *)
(* facility, matching facility field) the returned count k satisfies       *)
(* 0 <= k <= limit, the first k runs each found every input in sufficient  *)
(* quantity, and if k < times then in the final inventory at least one     *)
(* input is below its required quantity; for every call, when some input   *)
(* is insufficient at the moment of the call, run_recipe returns 0 and the *)
(* inventory is unchanged.                                                 *)
(*   C12_RunRecipeBestEffort states it as claimed, with limit = times.     *)
(*   C12_RunRecipeBestEffortNonNegative states it with limit =             *)
(*   max(0, times): a negative times runs nothing and returns 0.           *)
(***************************************************************************)
RunAccepted(recipe_id, facility_id) ==
    /\ recipe_id \in RecipeIds(recipes)
    /\ facility_id \in FacilityIds(facilities)
    /\ RecipeOf(recipes, recipe_id).facility = facility_id
    /\ FacilityOf(facilities, facility_id).workers_assigned > 0

AfterRuns(items, recipe, j) ==
    [g \in DOMAIN items \cup RecipeGoods(recipe) |->
        InvGet(items, g) + j * NetPerRun(recipe, g)]

BestEffort(recipe_id, facility_id, times, limit) ==
    /\ RunAccepted(recipe_id, facility_id) =>
          LET recipe == RecipeOf(recipes, recipe_id)
              k == last'.ret
          IN  /\ 0 <= k /\ k <= limit
              /\ \A j \in 0..(k - 1) :
                     ~LacksInput(AfterRuns(inventory, recipe, j), recipe.inputs)
              /\ k < times => LacksInput(inventory', recipe.inputs)
    /\ (/\ recipe_id \in RecipeIds(recipes)
        /\ LacksInput(inventory, RecipeOf(recipes, recipe_id).inputs)) =>
          (last'.ret = 0 /\ inventory' = inventory)

C12_RunRecipeBestEffort ==
    [][last'.op = "run_recipe" =>
          \A times \in TimesArgs :
              RunRecipeCall(last'.id, last'.fid, times) =>
                  BestEffort(last'.id, last'.fid, times, times)]_vars

C12_RunRecipeBestEffortNonNegative ==
    [][last'.op = "run_recipe" =>
          \A times \in TimesArgs :
              RunRecipeCall(last'.id, last'.fid, times) =>
                  BestEffort(last'.id, last'.fid, times, Max(0, times))]_vars

C12_Witness ==
    /\ Did("run_recipe") /\ last.ret = 1
    /\ pre.inventory # EmptyDict
    /\ ~LacksInput(pre.inventory, RecipeOf(recipes, last.id).inputs)
    /\ LacksInput(inventory, RecipeOf(recipes, last.id).inputs)
    /\ \E g \in DOMAIN RecipeOf(recipes, last.id).outputs : InvGet(pre.inventory, g) > 0

(***************************************************************************)
(* C13  advance_day run budget: for every built facility with              *)
(* workers_assigned > 0 and every recipe whose facility field equals that  *)
(* facility's id, advance_day makes exactly one run_recipe call, for       *)
(* workers_assigned * max(1, floor(480 / cycle_time_minutes)) runs (8 per  *)
(* worker for cycle 60, 1 per worker for cycle 500); it makes no call for  *)
(* a facility with zero workers or for a recipe bound to another or an     *)
(* unbuilt facility; the inventory it leaves is the one these calls leave, *)
(* so with no staffed facility the inventory is unchanged.                 *)
(***************************************************************************)
CallsFor(calls, recipe_id, facility_id) ==
    {n \in DOMAIN calls : /\ calls[n].recipe_id = recipe_id
                          /\ calls[n].facility_id = facility_id}

RunBudget(workers_assigned, cycle_time_minutes) ==
    workers_assigned * Max(1, 480 \div cycle_time_minutes)

C13_AdvanceDayRunBudget ==
    Did("advance_day") =>
        LET calls == DayCalls(recipes, pre.facilities)
        IN  /\ \A i \in DOMAIN pre.facilities, j \in DOMAIN recipes :
                   LET facility == pre.facilities[i]
                       recipe == recipes[j]
                       made == CallsFor(calls, recipe.id, facility.facility_id)
                   IN  IF /\ facility.workers_assigned > 0
                          /\ recipe.facility = facility.facility_id
                       THEN /\ Cardinality(made) = 1
                            /\ \A n \in made :
                                   /\ calls[n].times =
                                         RunBudget(facility.workers_assigned,
                                                   recipe.cycle_time_minutes)
                                   /\ recipe.cycle_time_minutes = 60 =>
                                         calls[n].times = 8 * facility.workers_assigned
                                   /\ recipe.cycle_time_minutes = 500 =>
                                         calls[n].times = facility.workers_assigned
                       ELSE made = {}
            /\ \A n \in DOMAIN calls :
                   /\ calls[n].facility_id \in FacilityIds(pre.facilities)
                   /\ calls[n].recipe_id \in RecipeIds(recipes)
            /\ inventory = RunCalls(recipes, pre.facilities, pre.inventory, calls)
            /\ (\A i \in DOMAIN pre.facilities :
                    pre.facilities[i].workers_assigned <= 0) =>
                  inventory = pre.inventory

C13_Witness ==
    /\ Did("advance_day")
    /\ inventory # pre.inventory
    /\ \E n \in DOMAIN DayCalls(recipes, pre.facilities) :
          DayCalls(recipes, pre.facilities)[n].times = 8
    /\ \E n \in DOMAIN DayCalls(recipes, pre.facilities) :
          /\ DayCalls(recipes, pre.facilities)[n].recipe_id = "press_sawdust"
          /\ DayCalls(recipes, pre.facilities)[n].times = 1

(***************************************************************************)
(* C14  The day counter starts at 1, is increased by exactly 1 by every    *)
(* advance_day call, whether or not anything was produced, and is changed  *)
(* by no other operation: day >= 1 always, day never decreases, and (by    *)
(* induction over the calls) day is 1 plus the number of advance_day calls.*)
(***************************************************************************)
C14_DayCounter ==
    /\ day >= 1
    /\ day >= pre.day
    /\ Did("init") => day = 1
    /\ Did("advance_day") => day = pre.day + 1
    /\ ~Did("advance_day") => day = pre.day

C14_Witness ==
    /\ Did("advance_day")
    /\ day = 2
    /\ inventory = pre.inventory
    /\ \E i \in DOMAIN pre.facilities : pre.facilities[i].workers_assigned > 0

(***************************************************************************)
(* C17  gather_resources neither consumes nor checks worker state: for any *)
(* workers value, also one larger than idle_workers, a resource with       *)
(* gather_rate > 0 yields workers * (gather_rate / 100) * 10, and every    *)
(* call leaves idle_workers, every facility's workers_assigned, the set of *)
(* built facilities and the day unchanged.                                 *)
(***************************************************************************)
GatherRate(resource) ==
    LET goods == get_all_goods(raw_goods, produced_goods)
    IN  IF resource \in DOMAIN goods
        THEN DictGet(goods[resource], "gather_rate", 0)
        ELSE 0

GatherIgnoresWorkers(resource, workers) ==
    /\ GatherRate(resource) > 0 =>
          /\ last'.ret * 100 = workers * GatherRate(resource) * 10
          /\ InvGet(inventory', resource) = InvGet(inventory, resource) + last'.ret
    /\ UNCHANGED <<idle_workers, facilities, day, population>>

C17_GatherIgnoresWorkers ==
    [][last'.op = "gather_resources" =>
          \A workers \in WorkersArgs :
              GatherResourcesCall(last'.id, workers) =>
                  GatherIgnoresWorkers(last'.id, workers)]_vars

C17_Witness ==
    /\ Did("gather_resources")
    /\ idle_workers >= 0
    /\ GatherRate(last.id) > 0
    /\ last.ret * 100 > idle_workers * GatherRate(last.id) * 10
    /\ InvGet(inventory, last.id) = InvGet(pre.inventory, last.id) + last.ret
    /\ \E i \in DOMAIN facilities : facilities[i].workers_assigned > 0

(***************************************************************************)
(* Gathering on its own.  The goods files are free input of                *)
(* load_game_data: the raw good logs is loaded with each gather rate of    *)
(* GatherRates, beside a second gatherable raw good; lumber has no         *)
(* gather_rate field, sawdust has gather_rate 0 and gold is no good.       *)
(***************************************************************************)
GatherRates == {100, 50, 0, 0 - 50}

GatherArgs == {"logs", "stone", "lumber", "sawdust", "gold"}

GatherWorkersArgs == (0 - 1)..MaxGatherWorkers

YieldInRange(items) ==
    \A g \in DOMAIN items : items[g] >= 0 - MaxDebt /\ items[g] <= MaxYield

GatherInit ==
    /\ day = InitialDay
    /\ population = InitialPopulation
    /\ idle_workers = InitialIdleWorkers
    /\ inventory = EmptyDict
    /\ facilities = <<>>
    /\ \E rate \in GatherRates :
          raw_goods = ("logs" :> [gather_rate |-> rate]) @@
                      ("stone" :> [gather_rate |-> 50])
    /\ produced_goods = ProducedGoodsData
    /\ compound_goods = CompoundGoodsData
    /\ recipes = RecipesData
    /\ last = Call("init", "", "", FALSE, 0)
    /\ pre = [day |-> InitialDay, population |-> InitialPopulation,
              idle_workers |-> InitialIdleWorkers,
              inventory |-> EmptyDict, facilities |-> <<>>]

GatherYieldCall(resource, workers) ==
    LET r == gather_resources(raw_goods, produced_goods, inventory,
                              resource, workers)
    IN  /\ YieldInRange(r.items)
        /\ inventory' = r.items
        /\ last' = Call("gather_resources", resource, "", FALSE, r.ret)
        /\ pre' = Snapshot
        /\ UNCHANGED <<day, idle_workers, facilities, Static>>

GatherNext ==
    \E resource \in GatherArgs, workers \in GatherWorkersArgs :
        GatherYieldCall(resource, workers)

GatherSpec == GatherInit /\ [][GatherNext]_vars

(***************************************************************************)
(* C15  gather_resources yield: for a resource of the merged goods lookup  *)
(* with gather_rate > 0, gather_resources(resource, workers) returns       *)
(* workers * (gather_rate / 100) * 10 and increases that resource's        *)
(* quantity by exactly that amount (50 for gather_rate 100 and 5 workers), *)
(* changing no other good.                                                 *)
(***************************************************************************)
GatherYield(resource, workers) ==
    GatherRate(resource) > 0 =>
        /\ last'.ret * 100 = workers * GatherRate(resource) * 10
        /\ (GatherRate(resource) = 100 /\ workers = 5) => last'.ret = 50
        /\ \A g \in DOMAIN inventory \cup DOMAIN inventory' \cup {resource} :
               InvGet(inventory', g) =
                   InvGet(inventory, g) + (IF g = resource THEN last'.ret ELSE 0)

C15_GatherYield ==
    [][last'.op = "gather_resources" =>
          \A workers \in GatherWorkersArgs :
              GatherYieldCall(last'.id, workers) =>
                  GatherYield(last'.id, workers)]_vars

C15_Witness ==
    /\ Did("gather_resources")
    /\ GatherRate(last.id) = 100
    /\ last.ret = 50
    /\ InvGet(inventory, last.id) = InvGet(pre.inventory, last.id) + 50
    /\ \E g \in DOMAIN pre.inventory : g # last.id /\ pre.inventory[g] > 0

(***************************************************************************)
(* C16  gather_resources returns 0 and leaves the inventory unchanged      *)
(* whenever the resource is absent from the merged goods lookup or its     *)
(* gather_rate is not greater than 0 (absent, zero or negative).           *)
(***************************************************************************)
C16_GatherRefuses ==
    (Did("gather_resources") /\ GatherRate(last.id) <= 0) =>
        (last.ret = 0 /\ inventory = pre.inventory)

(***************************************************************************)
(* The Inventory on its own: a fresh Inventory and calls of its four       *)
(* methods with goods and amounts of either sign.                          *)
(***************************************************************************)
ItemArgs == {"logs", "lumber"}

AmountArgs == (0 - 1)..MaxAmount

InventoryAddCall(item, amount) ==
    /\ QtyInRange(InvAdd(inventory, item, amount))
    /\ inventory' = InvAdd(inventory, item, amount)
    /\ last' = Call("add", item, "", FALSE, amount)
    /\ pre' = Snapshot
    /\ UNCHANGED <<day, idle_workers, facilities, Static>>

InventoryRemoveCall(item, amount) ==
    LET r == InvRemove(inventory, item, amount)
    IN  /\ QtyInRange(r.items)
        /\ inventory' = r.items
        /\ last' = Call("remove", item, "", r.ok, 0)
        /\ pre' = Snapshot
        /\ UNCHANGED <<day, idle_workers, facilities, Static>>

InventoryHasCall(item, amount) ==
    /\ last' = Call("has", item, "", InvHas(inventory, item, amount), 0)
    /\ pre' = Snapshot
    /\ UNCHANGED <<inventory, day, idle_workers, facilities, Static>>

InventoryGetCall(item) ==
    /\ last' = Call("get", item, "", FALSE, InvGet(inventory, item))
    /\ pre' = Snapshot
    /\ UNCHANGED <<inventory, day, idle_workers, facilities, Static>>

InventoryAdd ==
    \E item \in ItemArgs, amount \in AmountArgs : InventoryAddCall(item, amount)

InventoryRemove ==
    \E item \in ItemArgs, amount \in AmountArgs : InventoryRemoveCall(item, amount)

InventoryHas ==
    \E item \in ItemArgs, amount \in AmountArgs : InventoryHasCall(item, amount)

InventoryGet ==
    \E item \in ItemArgs : InventoryGetCall(item)

InventoryNext ==
    \/ InventoryAdd
    \/ InventoryRemove
    \/ InventoryHas
    \/ InventoryGet

InventorySpec == Init /\ [][InventoryNext]_vars

(***************************************************************************)
(* C18  Inventory.remove(g, a) returns true if and only if get(g) >= a     *)
(* immediately before the call (an absent good counting as 0); on success  *)
(* get(g) decreases by exactly a and no other good changes; on failure     *)
(* every good's quantity is unchanged.                                     *)
(***************************************************************************)
RemoveContract(item, amount) ==
    /\ last'.ok <=> (InvGet(inventory, item) >= amount)
    /\ \A g \in DOMAIN inventory \cup DOMAIN inventory' \cup {item} :
           InvGet(inventory', g) =
               InvGet(inventory, g)
                   - (IF last'.ok /\ g = item THEN amount ELSE 0)

C18_RemoveContract ==
    [][last'.op = "remove" =>
          \A amount \in AmountArgs :
              InventoryRemoveCall(last'.id, amount) =>
                  RemoveContract(last'.id, amount)]_vars

C18_Witness ==
    /\ Did("remove") /\ last.ok
    /\ InvGet(inventory, last.id) > 0
    /\ InvGet(inventory, last.id) < InvGet(pre.inventory, last.id)
    /\ \E g \in DOMAIN inventory : g # last.id /\ inventory[g] > 0

(***************************************************************************)
(* C19  A failed Inventory.remove performs no mutation at all: the stored  *)
(* mapping (its set of entries as well as their quantities) is identical   *)
(* before and after the call, including when the good had no entry.        *)
(***************************************************************************)
C19_FailedRemoveKeepsMapping ==
    (Did("remove") /\ ~last.ok) => inventory = pre.inventory

(***************************************************************************)
(* C20  Inventory.add(g, a) for any a >= 0 returns a and makes get(g)      *)
(* equal to its previous value plus a (0 when g was absent), leaving every *)
(* other good's quantity unchanged; has(g, x) is true exactly when         *)
(* get(g) >= x.                                                            *)
(***************************************************************************)
AddContract(item, amount) ==
    amount >= 0 =>
        /\ last'.ret = amount
        /\ \A g \in DOMAIN inventory \cup DOMAIN inventory' \cup {item} :
               InvGet(inventory', g) =
                   InvGet(inventory, g) + (IF g = item THEN amount ELSE 0)

HasContract(item, amount) ==
    last'.ok <=> (InvGet(inventory, item) >= amount)

C20_AddAndHas ==
    [][/\ last'.op = "add" =>
             \A amount \in AmountArgs :
                 InventoryAddCall(last'.id, amount) => AddContract(last'.id, amount)
       /\ last'.op = "has" =>
             \A amount \in AmountArgs :
                 InventoryHasCall(last'.id, amount) => HasContract(last'.id, amount)]_vars

C20_Witness ==
    /\ Did("add") /\ last.ret > 0
    /\ InvGet(pre.inventory, last.id) > 0
    /\ InvGet(inventory, last.id) = InvGet(pre.inventory, last.id) + last.ret
    /\ \E g \in DOMAIN inventory : g # last.id /\ inventory[g] > 0

(***************************************************************************)
(* C24  Multi-recipe facilities are not partitioned: during one            *)
(* advance_day each recipe bound to a staffed facility gets the full       *)
(* workers_assigned * runs_per_worker attempts, however many recipes the   *)
(* facility hosts, so when every batch finds ample inputs the day adds the *)
(* full budget of every recipe to the inventory.                           *)
(***************************************************************************)
RECURSIVE RunCounts(_, _, _, _)
RunCounts(rs, facs, items, calls) ==
    IF calls = <<>>
    THEN <<>>
    ELSE LET r == run_recipe(rs, facs, items, Head(calls).recipe_id,
                             Head(calls).facility_id, Head(calls).times)
         IN  <<r.ret>> \o RunCounts(rs, facs, r.items, Tail(calls))

RECURSIVE BudgetNet(_, _, _)
BudgetNet(rs, calls, g) ==
    IF calls = <<>>
    THEN 0
    ELSE Head(calls).times * NetPerRun(RecipeOf(rs, Head(calls).recipe_id), g)
         + BudgetNet(rs, Tail(calls), g)

BoundRecipes(facility_id) ==
    {j \in DOMAIN recipes : recipes[j].facility = facility_id}

AllGoods ==
    DOMAIN inventory \cup DOMAIN pre.inventory
        \cup UNION {RecipeGoods(recipes[j]) : j \in DOMAIN recipes}

C24_FullBudgetPerRecipe ==
    Did("advance_day") =>
        LET calls == DayCalls(recipes, pre.facilities)
            counts == RunCounts(recipes, pre.facilities, pre.inventory, calls)
        IN  /\ \A i \in DOMAIN pre.facilities :
                   pre.facilities[i].workers_assigned > 0 =>
                       \A j \in BoundRecipes(pre.facilities[i].facility_id) :
                           \E n \in DOMAIN calls :
                               /\ calls[n].recipe_id = recipes[j].id
                               /\ calls[n].facility_id = pre.facilities[i].facility_id
                               /\ calls[n].times =
                                     pre.facilities[i].workers_assigned
                                         * RunsPerWorker(recipes[j])
            /\ (\A n \in DOMAIN calls : counts[n] = calls[n].times) =>
                  \A g \in AllGoods :
                      InvGet(inventory, g) =
                          InvGet(pre.inventory, g) + BudgetNet(recipes, calls, g)

C24_Witness ==
    /\ Did("advance_day")
    /\ LET calls == DayCalls(recipes, pre.facilities)
           counts == RunCounts(recipes, pre.facilities, pre.inventory, calls)
       IN  /\ \A n \in DOMAIN calls : counts[n] = calls[n].times
           /\ \E m, n \in DOMAIN calls :
                  /\ m # n
                  /\ calls[m].facility_id = calls[n].facility_id
                  /\ calls[m].times > 1

(***************************************************************************)
(* C25  The fields workers_required, skill_used, min_skill and             *)
(* waste_chance do not influence execution: a village whose recipes differ *)
(* only in these fields gives, for every run_recipe and advance_day call   *)
(* from the same state, the same return value and the same next state (the *)
(* other operations do not read the recipes), so the two villages stay     *)
(* equal step by step under the same sequence of operations.  In           *)
(* particular a recipe with workers_required above workers_assigned runs,  *)
(* and waste_chance reduces no output.                                     *)
(***************************************************************************)
OtherFieldValues ==
    { [workers_required |-> 1, skill_used |-> "", min_skill |-> 0, waste_chance |-> 0],
      [workers_required |-> 5, skill_used |-> "smithing", min_skill |-> 3,
       waste_chance |-> 1] }

WithFields(rs, fields) ==
    [j \in DOMAIN rs |->
        [rs[j] EXCEPT !.workers_required = fields.workers_required,
                      !.skill_used = fields.skill_used,
                      !.min_skill = fields.min_skill,
                      !.waste_chance = fields.waste_chance]]

C25_UnusedRecipeFields ==
    [][/\ last'.op = "run_recipe" =>
             \A times \in TimesArgs, fields \in OtherFieldValues :
                 RunRecipeCall(last'.id, last'.fid, times) =>
                     run_recipe(WithFields(recipes, fields), facilities, inventory,
                                last'.id, last'.fid, times)
                         = [ret |-> last'.ret, items |-> inventory']
       /\ last'.op = "advance_day" =>
             \A fields \in OtherFieldValues :
                 advance_day(WithFields(recipes, fields), facilities, inventory, day)
                     = [items |-> inventory', day |-> day']
       /\ last'.op \in {"gather_resources", "build_facility",
                        "assign_worker", "unassign_worker"} =>
             recipes' = recipes]_vars

C25_Witness ==
    /\ Did("run_recipe") /\ last.ret > 0
    /\ RecipeOf(recipes, last.id).workers_required
          > FacilityOf(facilities, last.fid).workers_assigned
    /\ \A g \in DOMAIN RecipeOf(recipes, last.id).outputs :
          InvGet(inventory, g) =
              InvGet(pre.inventory, g)
                  + last.ret * RecipeOf(recipes, last.id).outputs[g]

(***************************************************************************)
(* C27  Static data and population are read-only during play: no sequence  *)
(* of gather_resources, build_facility, assign_worker, unassign_worker,    *)
(* run_recipe and advance_day calls changes raw_goods, produced_goods,     *)
(* compound_goods, recipes or population from their values after           *)
(* construction.                                                           *)
(***************************************************************************)
C27_StaticReadOnly ==
    /\ population = InitialPopulation
    /\ pre.population = InitialPopulation
    /\ raw_goods = RawGoodsData
    /\ produced_goods = ProducedGoodsData
    /\ compound_goods = CompoundGoodsData
    /\ recipes = RecipesData

C27_Witness ==
    /\ Did("advance_day")
    /\ inventory # pre.inventory
    /\ Len(facilities) = 2
    /\ idle_workers < InitialIdleWorkers

(***************************************************************************)
(* C28  Built facilities are permanent: every operation keeps every built  *)
(* facility in the facilities map, at its place and with its capacity, so  *)
(* a facility once built is there in every later state; the map grows only *)
(* by one facility at a time and only through a successful build_facility. *)
(***************************************************************************)
C28_FacilitiesPermanent ==
    /\ Len(facilities) >= Len(pre.facilities)
    /\ \A i \in DOMAIN pre.facilities :
          /\ facilities[i].facility_id = pre.facilities[i].facility_id
          /\ facilities[i].capacity = pre.facilities[i].capacity
    /\ Len(facilities) > Len(pre.facilities) =>
          /\ Did("build_facility") /\ last.ok
          /\ Len(facilities) = Len(pre.facilities) + 1
          /\ facilities[Len(facilities)].facility_id = last.fid

C28_Witness ==
    /\ Did("unassign_worker") /\ last.ok
    /\ Len(facilities) = 2
    /\ FacilityOf(pre.facilities, last.fid).workers_assigned > 0
    /\ FacilityOf(facilities, last.fid).workers_assigned = 0

(***************************************************************************)
(* C29  Batch equivalence: from any state, run_recipe(r, f, n) leaves the  *)
(* same village and returns the same count as n consecutive calls          *)
(* run_recipe(r, f, 1) with their return values summed.                    *)
(***************************************************************************)
RECURSIVE SingleRuns(_, _, _, _, _, _, _)
SingleRuns(rs, facs, items, recipe_id, facility_id, n, total) ==
    IF n <= 0
    THEN [ret |-> total, items |-> items]
    ELSE LET r == run_recipe(rs, facs, items, recipe_id, facility_id, 1)
         IN  SingleRuns(rs, facs, r.items, recipe_id, facility_id,
                        n - 1, total + r.ret)

C29_BatchEquivalence ==
    [][last'.op = "run_recipe" =>
          \A times \in TimesArgs :
              RunRecipeCall(last'.id, last'.fid, times) =>
                  /\ SingleRuns(recipes, facilities, inventory,
                                last'.id, last'.fid, times, 0)
                         = [ret |-> last'.ret, items |-> inventory']
                  /\ UNCHANGED <<day, idle_workers, facilities, population>>]_vars

C29_Witness ==
    /\ Did("run_recipe") /\ last.ret = 1
    /\ \E g \in DOMAIN RecipeOf(recipes, last.id).inputs :
          /\ InvGet(pre.inventory, g) = RecipeOf(recipes, last.id).inputs[g]
          /\ g \notin DOMAIN inventory
    /\ run_recipe(recipes, facilities, inventory, last.id, last.fid, 1).ret = 0

(***************************************************************************)
(* C30  Production inside one advance_day is sequential: the batches run   *)
(* facility by facility in build order and, within a facility, recipe by   *)
(* recipe in load order, each against the inventory the previous batch     *)
(* left, so a later batch can consume what an earlier batch produced that  *)
(* day and an earlier batch never sees what a later one produces; the      *)
(* end-of-day inventory can therefore depend on the order.                 *)
(***************************************************************************)
RecipeIndex(rs, recipe_id) == CHOOSE j \in DOMAIN rs : rs[j].id = recipe_id

Reverse(seq) == [n \in 1..Len(seq) |-> seq[Len(seq) + 1 - n]]

InDayOrder(calls, facs, rs) ==
    \A m, n \in DOMAIN calls :
        m < n =>
            \/ FacilityIndex(facs, calls[m].facility_id)
                  < FacilityIndex(facs, calls[n].facility_id)
            \/ /\ calls[m].facility_id = calls[n].facility_id
               /\ RecipeIndex(rs, calls[m].recipe_id)
                     < RecipeIndex(rs, calls[n].recipe_id)

C30_SequentialProduction ==
    Did("advance_day") =>
        LET calls == DayCalls(recipes, pre.facilities)
        IN  /\ InDayOrder(calls, pre.facilities, recipes)
            /\ inventory = RunCalls(recipes, pre.facilities, pre.inventory, calls)

C30_Witness ==
    /\ Did("advance_day")
    /\ LET calls == DayCalls(recipes, pre.facilities)
           counts == RunCounts(recipes, pre.facilities, pre.inventory, calls)
       IN  /\ \E n \in DOMAIN calls :
                  /\ counts[n] > 0
                  /\ LacksInput(pre.inventory,
                                RecipeOf(recipes, calls[n].recipe_id).inputs)
           /\ RunCalls(recipes, pre.facilities, pre.inventory, Reverse(calls))
                 # inventory

(***************************************************************************)
(* The constructor and the operations over loaded data.  GameEngine(path)  *)
(* builds Village() and calls load_game_data; an exception of the loader   *)
(* leaves the constructor and no engine exists.  A call that raised is     *)
(* recorded with its exception.  last.id of the constructor call is the    *)
(* content of the data directory.                                          *)
(***************************************************************************)
Raised(op, id, exception) ==
    [op |-> op, id |-> id, fid |-> "", ok |-> FALSE, ret |-> 0,
     raised |-> exception]

Raises == "raised" \in DOMAIN last

(* Documents of the five catalogues: the well-formed one, and the shapes   *)
(* a hand-edited file takes.                                               *)
GoodsList == ListValue(<<StrValue("logs")>>)

HeaderOnly == DictValue("schema_version" :> StrValue("3.5"))

RawGoodsFiles ==
    {Missing, Unparsable, Parsed(None), Parsed(ListValue(<<>>)),
     Parsed(GoodsList), Parsed(HeaderOnly),
     Parsed(DictValue("goods" :> None)),
     Parsed(DictValue("goods" :> DictValue(EmptyDict))),
     Parsed(DictValue("goods" :> GoodsList)),
     Parsed(DictValue("goods" :> DictValue(RawGoodsData)))}

ProducedGoodsFiles ==
    {Missing,
     Parsed(DictValue("goods" :> None)),
     Parsed(DictValue("goods" :> DictValue(ProducedGoodsData)))}

FacilitiesList == ListValue(<<StrValue("sawmill")>>)

FacilitiesFiles ==
    {Missing, Parsed(FacilitiesList),
     Parsed(DictValue("facilities" :> None)),
     Parsed(DictValue("facilities" :> FacilitiesList)),
     Parsed(DictValue("facilities" :> DictValue(FacilitiesData)))}

FixturesFiles ==
    {Missing, Parsed(DictValue("fixtures" :> None))}

EquipmentFiles ==
    {Missing, Unparsable}

RecipesList ==
    ListValue([i \in DOMAIN RecipesData |->
                  DictValue([RecipesData[i] EXCEPT !.facility = StrValue(@)])])

RecipesFiles ==
    {Missing, Parsed(RecipesList),
     Parsed(DictValue("recipes" :> None)),
     Parsed(DictValue("recipes" :> RecipesList.value[1])),
     Parsed(DictValue("recipes" :> RecipesList))}

Directory(raw, produced, facs, fixtures, equipment, recs) ==
    [i \in 1..6 |-> <<raw, produced, facs, fixtures, equipment, recs>>[i]]

DataDirectories ==
    {[f \in {LoadFiles[i] : i \in 1..6} |->
         d[CHOOSE i \in 1..6 : LoadFiles[i] = f]] :
     d \in {Directory(raw, produced, facs, fixtures, equipment, recs) :
               raw \in RawGoodsFiles, produced \in ProducedGoodsFiles,
               facs \in FacilitiesFiles, fixtures \in FixturesFiles,
               equipment \in EquipmentFiles, recs \in RecipesFiles}}

(* Village(): every catalogue starts as an empty dict. *)
LoadInit ==
    /\ day = InitialDay
    /\ population = InitialPopulation
    /\ idle_workers = InitialIdleWorkers
    /\ inventory = EmptyDict
    /\ facilities = <<>>
    /\ raw_goods = DictValue(EmptyDict)
    /\ produced_goods = DictValue(EmptyDict)
    /\ compound_goods = [facilities |-> DictValue(EmptyDict),
                         fixtures |-> DictValue(EmptyDict),
                         equipment |-> DictValue(EmptyDict)]
    /\ recipes = <<>>
    /\ last = Call("init", "", "", FALSE, 0)
    /\ pre = [day |-> InitialDay, population |-> InitialPopulation,
              idle_workers |-> InitialIdleWorkers,
              inventory |-> EmptyDict, facilities |-> <<>>]

ConstructCall(files) ==
    LET r == load_game_data(files)
    IN  /\ last.op \in {"init", "convert_recipes"}
        /\ pre' = Snapshot
        /\ UNCHANGED <<day, population, idle_workers, inventory, facilities>>
        /\ IF r.raised # ""
           THEN /\ last' = Raised("GameEngine", files, r.raised)
                /\ UNCHANGED <<raw_goods, produced_goods, compound_goods, recipes>>
           ELSE /\ last' = Call("GameEngine", files, "", TRUE, 0)
                /\ raw_goods' = r.raw_goods
                /\ produced_goods' = r.produced_goods
                /\ compound_goods' = r.compound_goods
                /\ recipes' = r.recipes

Constructed == last.op # "init" /\ ~(last.op = "GameEngine" /\ Raises)

(* `x in container` for the key of a dict or the element of a list. *)
Contains(container, x) ==
    IF container.type = "dict"
    THEN x \in DOMAIN container.value
    ELSE \E i \in DOMAIN container.value :
            container.value[i].type = "str" /\ container.value[i].value = x

(* gather_resources over the loaded catalogues: {**raw, **produced} is a   *)
(* TypeError unless both are mappings.                                     *)
GatherLoadedCall(resource, workers) ==
    /\ Constructed
    /\ pre' = Snapshot
    /\ UNCHANGED <<day, idle_workers, facilities, Static>>
    /\ IF raw_goods.type # "dict" \/ produced_goods.type # "dict"
       THEN /\ last' = Raised("gather_resources", resource, "TypeError")
            /\ UNCHANGED inventory
       ELSE LET r == gather_resources(raw_goods.value, produced_goods.value,
                                      inventory, resource, workers)
            IN  /\ QtyInRange(r.items)
                /\ inventory' = r.items
                /\ last' = Call("gather_resources", resource, "", FALSE, r.ret)

(* build_facility over the loaded catalogue: facilities[facility_id] is a  *)
(* TypeError when facilities is a list that holds facility_id.             *)
BuildLoadedCall(facility_id) ==
    LET defs == compound_goods.facilities
    IN  /\ Constructed
        /\ pre' = Snapshot
        /\ UNCHANGED <<day, idle_workers, Static>>
        /\ IF defs.type = "dict"
           THEN LET r == build_facility([facilities |-> defs.value],
                                        facilities, inventory, facility_id)
                IN  /\ inventory' = r.items
                    /\ facilities' = r.facilities
                    /\ last' = Call("build_facility", "", facility_id, r.ok, 0)
           ELSE /\ UNCHANGED <<inventory, facilities>>
                /\ IF defs.type = "list" /\ ~Contains(defs, facility_id)
                   THEN last' = Call("build_facility", "", facility_id, FALSE, 0)
                   ELSE last' = [Raised("build_facility", "", "TypeError")
                                    EXCEPT !.fid = facility_id]

Construct ==
    \E files \in DataDirectories : last.op = "init" /\ ConstructCall(files)

GatherLoaded ==
    \E resource \in ResourceArgs, workers \in WorkersArgs :
        GatherLoadedCall(resource, workers)

BuildLoaded == \E facility_id \in FacilityArgs : BuildLoadedCall(facility_id)

LoadNext ==
    \/ Construct
    \/ GatherLoaded
    \/ BuildLoaded

LoadSpec == LoadInit /\ [][LoadNext]_vars

(***************************************************************************)
(* C22  Data-load failures are never fatal: for each data source, a file   *)
(* that is missing, unparsable or malformed (a document whose top level is *)
(* not a mapping, or whose category key is present but empty or null)      *)
(* yields an empty structure for its category, the constructor raises no   *)
(* exception, and for an empty data directory recipes, raw_goods and       *)
(* produced_goods all have length 0.                                       *)
(***************************************************************************)
Malformed(files, i) ==
    LET file == FileOf(files, LoadFiles[i])
    IN  \/ file.state # "parsed"
        \/ file.document.type # "dict"
        \/ /\ LoadKeys[i] \in DOMAIN file.document.value
           /\ ~Truthy(file.document.value[LoadKeys[i]])

EmptyStructure(v) == v.type \in {"dict", "list"} /\ ~Truthy(v)

LoadedCategory(i) ==
    <<raw_goods, produced_goods, compound_goods.facilities,
      compound_goods.fixtures, compound_goods.equipment, ListValue(recipes)>>[i]

EmptyDirectory(files) == \A i \in 1..6 : FileOf(files, LoadFiles[i]).state = "missing"

C22_LoadNeverFatal ==
    Did("GameEngine") =>
        /\ ~Raises
        /\ \A i \in 1..6 :
               Malformed(last.id, i) => EmptyStructure(LoadedCategory(i))
        /\ EmptyDirectory(last.id) =>
               /\ recipes = <<>>
               /\ EmptyStructure(raw_goods)
               /\ EmptyStructure(produced_goods)

(***************************************************************************)
(* C21  Operation-precondition failures never raise: whatever the loaded   *)
(* data, an operation called with an unknown identifier ends in a false or *)
(* zero return value and never in an exception.                            *)
(***************************************************************************)
KnownGood(resource) ==
    Contains(raw_goods, resource) \/ Contains(produced_goods, resource)

KnownFacility(facility_id) ==
    Contains(compound_goods.facilities, facility_id)

C21_PreconditionFailuresNeverRaise ==
    /\ (Did("gather_resources") /\ ~KnownGood(last.id)) =>
           (~Raises /\ last.ret = 0)
    /\ (Did("build_facility") /\ ~KnownFacility(last.fid)) =>
           (~Raises /\ ~last.ok)

(***************************************************************************)
(* Recipe files: the engine constructed over a recipes.yaml that holds a   *)
(* list of records, written by hand or by convert_recipes.py from a legacy *)
(* file.  The other catalogues are missing, except the raw goods the       *)
(* converter reads per_unit_kg from.                                       *)
(***************************************************************************)
MaxRecords == 3

FullRecord == RecipesList.value[1].value

BareRecord == ("id" :> "saw_lumber")

PartialRecord ==
    [id |-> "whittle", facility |-> StrValue("woodworker_hut"),
     inputs |-> ("lumber" :> 5), cycle_time_minutes |-> 30]

NoIdRecord == [facility |-> StrValue("sawmill"), outputs |-> ("lumber" :> 5)]

EmptyIdRecord == [id |-> "", workers_required |-> 2]

ListRecords == {FullRecord, BareRecord, PartialRecord, NoIdRecord, EmptyIdRecord}

RecipeLists == UNION {[1..n -> ListRecords] : n \in 0..MaxRecords}

RecipesDocument(records) ==
    DictValue("recipes" :> ListValue([i \in DOMAIN records |-> DictValue(records[i])]))

RecipeDirectories ==
    {("recipes.yaml" :> Parsed(RecipesDocument(records))) : records \in RecipeLists}

LegacyRawGoods ==
    ("logs" :> [gather_rate |-> 50, measure |-> [per_unit_kg |-> 2]])

FullLegacy ==
    [facility |-> StrValue("sawmill"),
     inputs |-> ("logs" :> 2), outputs |-> ("lumber" :> 1),
     byproducts |-> ("sawdust" :> 1),
     cycle_time_s |-> 61, labor |-> 2, workers_required |-> 3,
     skill |-> "carpentry", min_skill |-> 1, waste_chance |-> 1]

MinutesLegacy ==
    [outputs |-> ("sawdust" :> 3), cycle_time_minutes |-> 30,
     workers_required |-> 2, skill_used |-> "carving"]

LegacyRecords == {EmptyDict, FullLegacy, MinutesLegacy}

LegacyIds == {"saw_lumber", "whittle", "press_sawdust"}

LegacyItems ==
    {items \in UNION {[1..n -> LegacyIds \X LegacyRecords] : n \in 0..MaxRecords} :
        \A i, j \in DOMAIN items : items[i][1] = items[j][1] => i = j}

LegacyEntries ==
    {EmptyDict, ("name" :> "whittle"), [id |-> "saw_lumber", labor |-> 2]}

LegacyRecipes ==
    {LegacyMapping(items) : items \in LegacyItems} \cup
    {ListValue(entries) : entries \in UNION {[1..n -> LegacyEntries] : n \in 1..2}}

(* convert_recipes.py --old recipes_legacy.yaml --raw raw_goods.yaml       *)
(* --produced produced_goods.yaml --out recipes.yaml                       *)
ConvertCall(old_recipes) ==
    LET per_kg_map == load_goods(LegacyRawGoods, EmptyDict)
        new_recipes == ConvertAll(old_recipes, per_kg_map)
        files == ("raw_goods.yaml" :>
                      Parsed(DictValue("goods" :> DictValue(LegacyRawGoods)))) @@
                 ("recipes_legacy.yaml" :>
                      Parsed(DictValue("recipes" :> old_recipes))) @@
                 ("recipes.yaml" :> Parsed(ConvertedDocument(new_recipes)))
    IN  /\ last.op = "init"
        /\ last' = Call("convert_recipes", files, "", TRUE, Len(new_recipes))
        /\ pre' = Snapshot
        /\ UNCHANGED <<day, idle_workers, inventory, facilities, Static>>

ConstructFromList ==
    \E files \in RecipeDirectories : last.op = "init" /\ ConstructCall(files)

Convert == \E old_recipes \in LegacyRecipes : ConvertCall(old_recipes)

ConstructConverted == last.op = "convert_recipes" /\ ConstructCall(last.id)

RecipeNext ==
    \/ ConstructFromList
    \/ Convert
    \/ ConstructConverted

RecipeSpec == LoadInit /\ [][RecipeNext]_vars

(***************************************************************************)
(* C26  Recipe loading: the loader maps the ordered recipe list to a       *)
(* mapping keyed by id in which every record with an identifier appears    *)
(* with all nine fields, each taken from the record when present and       *)
(* otherwise set to its documented default; a record missing its           *)
(* identifier is dropped without affecting the loading of the records      *)
(* before and after it.  (A record whose id is the empty string counts as  *)
(* missing its identifier.)                                                *)
(***************************************************************************)
DocumentedDefaults ==
    [facility |-> None, inputs |-> EmptyDict, outputs |-> EmptyDict,
     byproducts |-> EmptyDict, cycle_time_minutes |-> 60,
     workers_required |-> 1, skill_used |-> "", min_skill |-> 0,
     waste_chance |-> 0]

NineFields == DOMAIN DocumentedDefaults

Expected(record) ==
    [f \in NineFields \cup {"id"} |->
        IF f \in DOMAIN record THEN record[f] ELSE DocumentedDefaults[f]]

HasId(record) == DictGet(record, "id", "") # ""

(* The records of the recipes.yaml the engine was constructed over. *)
ListedRecords ==
    LET list == last.id["recipes.yaml"].document.value["recipes"].value
    IN  [i \in DOMAIN list |-> list[i].value]

IdentifiedRecords == SelectSeq(ListedRecords, HasId)

LoadedFrom(records) ==
    IterateRecipes(ListValue([i \in DOMAIN records |-> DictValue(records[i])])).recipes

LoadedRecipeList == Did("GameEngine") /\ "recipes.yaml" \in DOMAIN last.id

C26_RecipeLoading ==
    LoadedRecipeList =>
        /\ ~Raises
        /\ \A i \in DOMAIN ListedRecords :
               HasId(ListedRecords[i]) =>
                   \E j \in DOMAIN recipes : recipes[j] = Expected(ListedRecords[i])
        /\ recipes = LoadedFrom(IdentifiedRecords)

(* C26, amended: of several records with one identifier the last one is    *)
(* loaded, at the place of the first. *)
FirstWithId(records, i) ==
    \A k \in 1..(i - 1) : records[k]["id"] # records[i]["id"]

LastWithId(records, i) ==
    \A k \in (i + 1)..Len(records) : records[k]["id"] # records[i]["id"]

IsFirst(i) == FirstWithId(IdentifiedRecords, i)

FirstRecords ==
    LET picked == {i \in DOMAIN IdentifiedRecords : IsFirst(i)}
        Rank(i) == Cardinality({k \in picked : k <= i})
    IN  [n \in 1..Cardinality(picked) |->
            IdentifiedRecords[CHOOSE i \in picked : Rank(i) = n]]

C26_RecipeLoadingLastWins ==
    LoadedRecipeList =>
        /\ ~Raises
        /\ Len(recipes) = Len(FirstRecords)
        /\ \A n \in DOMAIN recipes :
               /\ recipes[n].id = FirstRecords[n]["id"]
               /\ \E i \in DOMAIN IdentifiedRecords :
                      /\ LastWithId(IdentifiedRecords, i)
                      /\ recipes[n] = Expected(IdentifiedRecords[i])
        /\ recipes = LoadedFrom(IdentifiedRecords)

C26_Witness ==
    /\ LoadedRecipeList
    /\ ~Raises
    /\ Len(ListedRecords) = 3
    /\ ~HasId(ListedRecords[2])
    /\ HasId(ListedRecords[1])
    /\ HasId(ListedRecords[3])
    /\ ListedRecords[1]["id"] # ListedRecords[3]["id"]
    /\ Len(recipes) = 2
    /\ \E n \in DOMAIN recipes :
           /\ "cycle_time_minutes" \notin DOMAIN ListedRecords[3]
           /\ recipes[n].id = ListedRecords[3]["id"]
           /\ recipes[n].cycle_time_minutes = DefaultCycleTime

(***************************************************************************)
(* C23  Round trip: every recipe of a legacy keyed mapping, converted by   *)
(* convert_recipe and then loaded by the engine, is a loaded recipe under  *)
(* its original identifier that carries all nine fields, with the          *)
(* documented default (60, 1, empty, 0, 0.0, empty mapping) wherever the   *)
(* legacy record omitted the field under each of its legacy names, and as  *)
(* many recipes are loaded as the legacy mapping holds.                    *)
(***************************************************************************)
LegacyNames ==
    [inputs |-> {"inputs"}, outputs |-> {"outputs"}, byproducts |-> {"byproducts"},
     cycle_time_minutes |-> {"cycle_time_s", "cycle_time_minutes"},
     workers_required |-> {"labor", "workers_required"},
     skill_used |-> {"skill_used", "skill"},
     min_skill |-> {"min_skill"}, waste_chance |-> {"waste_chance"}]

Omits(old_obj, field) == LegacyNames[field] \cap DOMAIN old_obj = {}

(* The legacy recipes the loaded recipes.yaml was converted from. *)
LegacySource == last.id["recipes_legacy.yaml"].document.value["recipes"]

LoadedConverted ==
    /\ Did("GameEngine")
    /\ "recipes_legacy.yaml" \in DOMAIN last.id
    /\ LegacySource.type = "dict"

RoundTrip(old_id, old_obj) ==
    \E n \in DOMAIN recipes :
        /\ recipes[n].id = old_id
        /\ DOMAIN recipes[n] = NineFields \cup {"id"}
        /\ \A field \in DOMAIN LegacyNames :
               Omits(old_obj, field) =>
                   recipes[n][field] = DocumentedDefaults[field]

C23_RoundTrip ==
    LoadedConverted =>
        /\ ~Raises
        /\ Len(recipes) = Len(LegacySource.items)
        /\ \A i \in DOMAIN LegacySource.items :
               RoundTrip(LegacySource.items[i][1], LegacySource.items[i][2])

C23_Witness ==
    /\ LoadedConverted
    /\ ~Raises
    /\ Len(recipes) = 2
    /\ LegacySource.items[1][2] = EmptyDict
    /\ "cycle_time_s" \in DOMAIN LegacySource.items[2][2]
    /\ recipes[1].workers_required = DefaultWorkersRequired
    /\ recipes[2].cycle_time_minutes = 2
    /\ recipes[2].inputs = ("logs" :> 4)

====
